---- MODULE Spec2Model ----
(***************************************************************************)
(* Model of the crilogs crate (src/lib.rs): CriLog::from_str parses one    *)
(* line of CRI log output,                                                 *)
(*     <RFC3339-timestamp> <stdout|stderr> <tag> <log ...>                 *)
(* into a CriLog value or a ParsingError.                                  *)
(*                                                                         *)
(* A line is a sequence of characters (one-character strings).  A token    *)
(* is a non-empty sequence of non-whitespace characters.                   *)
(***************************************************************************)
EXTENDS Integers, Sequences, FiniteSets, TLC

VARIABLES
    line,      \* the line under construction by the caller (characters)
    toks,      \* the tokens the caller put on the line, in order
    pc,        \* "building" until from_str has been called, then "done"
    input,     \* the argument of the last call of CriLog::from_str
    result,    \* <<>> before the call, <<r>> with r the Result after it
    history    \* every <<input, Result>> pair observed so far

vars == <<line, toks, pc, input, result, history>>

(***************************************************************************)
(* Bounds of the model                                                     *)
(***************************************************************************)
\* number of tokens a line may carry after the tag
MaxWords == 2

(***************************************************************************)
(* Characters                                                              *)
(***************************************************************************)
Space == " "
Tab == "\t"

\* char::is_whitespace, restricted to the whitespace characters of the model
IsWhitespace(c) == c \in {Space, Tab, "\n", "\r"}

IsDigit(c) == c \in {"0", "1", "2", "3", "4", "5", "6", "7", "8", "9"}

DigitValue(c) ==
    CASE c = "0" -> 0 [] c = "1" -> 1 [] c = "2" -> 2 [] c = "3" -> 3
      [] c = "4" -> 4 [] c = "5" -> 5 [] c = "6" -> 6 [] c = "7" -> 7
      [] c = "8" -> 8 [] c = "9" -> 9

(***************************************************************************)
(* str::split_whitespace: the maximal runs of non-whitespace characters,   *)
(* in order; empty runs are never produced.                                *)
(***************************************************************************)
\* the positions where a token starts: a non-whitespace character that is
\* the first of the line or follows a whitespace character
TokenStarts(s) ==
    {k \in 1..Len(s) :
        ~IsWhitespace(s[k]) /\ (k = 1 \/ IsWhitespace(s[k - 1]))}

\* the positions where a token ends: a non-whitespace character that is
\* the last of the line or precedes a whitespace character
TokenEnds(s) ==
    {k \in 1..Len(s) :
        ~IsWhitespace(s[k]) /\ (k = Len(s) \/ IsWhitespace(s[k + 1]))}

Least(S) == CHOOSE k \in S : \A j \in S : k <= j

\* the tokens in the order the iterator yields them, from left to right
RECURSIVE TokensBetween(_, _, _)
TokensBetween(s, starts, ends) ==
    IF starts = {} THEN <<>>
    ELSE <<SubSeq(s, Least(starts), Least(ends))>>
         \o TokensBetween(s, starts \ {Least(starts)}, ends \ {Least(ends)})

\* str::split(' '): every piece between two spaces, the empty ones included
RECURSIVE SplitOnSpaceFrom(_, _)
SplitOnSpaceFrom(s, i) ==
    LET found == {k \in i..Len(s) : s[k] = Space} IN
    IF found = {} THEN <<SubSeq(s, i, Len(s))>>
    ELSE <<SubSeq(s, i, Least(found) - 1)>>
         \o SplitOnSpaceFrom(s, Least(found) + 1)

split_on_space(s) == SplitOnSpaceFrom(s, 1)

split_whitespace(s) == TokensBetween(s, TokenStarts(s), TokenEnds(s))

(***************************************************************************)
(* [&str]::join(sep)                                                       *)
(***************************************************************************)
\* join that puts the separator after every word
RECURSIVE join_trailing(_, _)
join_trailing(words, sep) ==
    IF words = <<>> THEN <<>>
    ELSE words[1] \o sep \o join_trailing(Tail(words), sep)

RECURSIVE join(_, _)
join(words, sep) ==
    IF words = <<>> THEN <<>>
    ELSE IF Len(words) = 1 THEN words[1]
    ELSE words[1] \o sep \o join(Tail(words), sep)

(***************************************************************************)
(* chrono::DateTime::parse_from_rfc3339                                    *)
(*   YYYY-MM-DD(T|t)hh:mm:ss[.f+](Z|z|(+|-)hh:mm)                          *)
(* The value keeps the local date and time and the offset as written.      *)
(***************************************************************************)
AllDigits(s, i, j) == \A k \in i..j : IsDigit(s[k])

RECURSIVE Number(_, _, _)
Number(s, i, j) ==
    IF j < i THEN 0 ELSE 10 * Number(s, i, j - 1) + DigitValue(s[j])

IsLeapYear(y) == (y % 4 = 0 /\ y % 100 # 0) \/ y % 400 = 0

DaysInMonth(y, m) ==
    IF m = 2 THEN (IF IsLeapYear(y) THEN 29 ELSE 28)
    ELSE IF m \in {4, 6, 9, 11} THEN 30 ELSE 31

\* index of the first character at or after i that is not a digit
RECURSIVE DigitsEnd(_, _)
DigitsEnd(s, i) ==
    IF i <= Len(s) /\ IsDigit(s[i]) THEN DigitsEnd(s, i + 1) ELSE i

\* the fraction digits s[i..j] as nanoseconds: nine digits, right-padded
RECURSIVE Nanos(_, _, _, _)
Nanos(s, i, j, width) ==
    IF width = 0 THEN 0
    ELSE (IF i <= j THEN DigitValue(s[i]) ELSE 0) * (10 ^ (width - 1))
         + Nanos(s, i + 1, j, width - 1)

ParseError == [ok |-> FALSE]

parse_from_rfc3339(s) ==
    IF \/ Len(s) < 20
       \/ ~AllDigits(s, 1, 4)   \/ s[5] # "-"
       \/ ~AllDigits(s, 6, 7)   \/ s[8] # "-"
       \/ ~AllDigits(s, 9, 10)  \/ s[11] \notin {"T", "t"}
       \/ ~AllDigits(s, 12, 13) \/ s[14] # ":"
       \/ ~AllDigits(s, 15, 16) \/ s[17] # ":"
       \/ ~AllDigits(s, 18, 19)
    THEN ParseError
    ELSE
    LET year   == Number(s, 1, 4)
        month  == Number(s, 6, 7)
        day    == Number(s, 9, 10)
        hour   == Number(s, 12, 13)
        minute == Number(s, 15, 16)
        second == Number(s, 18, 19)
        hasFrac == s[20] = "."
        fracEnd == IF hasFrac THEN DigitsEnd(s, 21) ELSE 20
        nano   == IF hasFrac THEN Nanos(s, 21, fracEnd - 1, 9) ELSE 0
        p      == fracEnd    \* position of the offset
    IN  IF \/ month \notin 1..12
           \/ day \notin 1..DaysInMonth(year, month)
           \/ hour > 23 \/ minute > 59 \/ second > 60
           \/ (hasFrac /\ fracEnd = 21)
           \/ p > Len(s)
        THEN ParseError
        ELSE
        LET dt(off) == [ok |-> TRUE,
                        value |-> [year |-> year, month |-> month, day |-> day,
                                   hour |-> hour, minute |-> minute,
                                   second |-> second, nanosecond |-> nano,
                                   offset |-> off]]
        IN  IF s[p] \in {"Z", "z"}
            THEN IF Len(s) = p THEN dt(0) ELSE ParseError
            ELSE IF s[p] \in {"+", "-"}
            THEN IF /\ Len(s) = p + 5
                    /\ AllDigits(s, p + 1, p + 2)
                    /\ s[p + 3] = ":"
                    /\ AllDigits(s, p + 4, p + 5)
                    /\ Number(s, p + 1, p + 2) <= 23
                    /\ Number(s, p + 4, p + 5) <= 59
                 THEN dt((IF s[p] = "-" THEN -1 ELSE 1)
                         * (Number(s, p + 1, p + 2) * 3600
                            + Number(s, p + 4, p + 5) * 60))
                 ELSE ParseError
            ELSE ParseError


(***************************************************************************)
(* enum StreamType and StreamType::from_str                                *)
(***************************************************************************)
StdOut == "StdOut"
StdErr == "StdErr"
StreamType == {StdOut, StdErr}

StdoutToken == <<"s", "t", "d", "o", "u", "t">>
StderrToken == <<"s", "t", "d", "e", "r", "r">>

\* struct InvalidStreamType(String)
InvalidStreamTypeOf(s) == [ok |-> FALSE, err |-> s]

\* a match whose last arm swallows every other token
StreamType_from_str_default_arm(s) ==
    IF s = StderrToken THEN [ok |-> TRUE, value |-> StdErr]
    ELSE [ok |-> TRUE, value |-> StdOut]

\* a match with the two arms exchanged
StreamType_from_str_swapped(s) ==
    IF s = StderrToken THEN [ok |-> TRUE, value |-> StdOut]
    ELSE IF s = StdoutToken THEN [ok |-> TRUE, value |-> StdErr]
    ELSE InvalidStreamTypeOf(s)

StreamType_from_str(s) ==
    IF s = StderrToken THEN [ok |-> TRUE, value |-> StdErr]
    ELSE IF s = StdoutToken THEN [ok |-> TRUE, value |-> StdOut]
    ELSE InvalidStreamTypeOf(s)

(***************************************************************************)
(* enum ParsingError                                                       *)
(***************************************************************************)
MissingTimestamp == [kind |-> "MissingTimestamp"]
TimestampFormat(s) == [kind |-> "TimestampFormat", payload |-> s]
MissingStreamType == [kind |-> "MissingStreamType"]
InvalidStreamType(s) == [kind |-> "InvalidStreamType", payload |-> s]
MissingLogTag == [kind |-> "MissingLogTag"]

ParsingErrorKinds ==
    {"MissingTimestamp", "TimestampFormat", "MissingStreamType",
     "InvalidStreamType", "MissingLogTag"}

Ok(v) == [ok |-> TRUE, value |-> v]
Err(e) == [ok |-> FALSE, err |-> e]

(***************************************************************************)
(* struct CriLog and its accessors                                         *)
(***************************************************************************)
CriLog(timestamp_, stream_type_, tag_, log_) ==
    [timestamp |-> timestamp_, stream_type |-> stream_type_,
     tag |-> tag_, log |-> log_]

timestamp(self) == self.timestamp

is_stderr(self) == self.stream_type = StdErr

\* is_stdout comparing with the wrong variant
is_stdout_copied(self) == self.stream_type = StdErr

is_stdout(self) == self.stream_type = StdOut

tag(self) == self.tag

log(self) == self.log

(***************************************************************************)
(* <CriLog as FromStr>::from_str                                           *)
(***************************************************************************)
\* the stream type validated before the timestamp
from_str_stream_first(in) ==
    LET iter == split_whitespace(in) IN
    IF Len(iter) < 1 THEN Err(MissingTimestamp)
    ELSE IF Len(iter) < 2
    THEN (IF parse_from_rfc3339(iter[1]).ok THEN Err(MissingStreamType)
          ELSE Err(TimestampFormat(iter[1])))
    ELSE
    LET stream_type == StreamType_from_str(iter[2])
        parsed == parse_from_rfc3339(iter[1])
    IN  IF ~stream_type.ok THEN Err(InvalidStreamType(iter[2]))
        ELSE IF ~parsed.ok THEN Err(TimestampFormat(iter[1]))
        ELSE IF Len(iter) < 3 THEN Err(MissingLogTag)
        ELSE Ok(CriLog(parsed.value, stream_type.value, iter[3],
                       join(SubSeq(iter, 4, Len(iter)), <<Space>>)))

\* the whole line, not the token, carried by the two payload errors
from_str_payload_line(in) ==
    LET iter == split_whitespace(in) IN
    IF Len(iter) < 1 THEN Err(MissingTimestamp)
    ELSE
    LET parsed == parse_from_rfc3339(iter[1]) IN
    IF ~parsed.ok THEN Err(TimestampFormat(in))
    ELSE IF Len(iter) < 2 THEN Err(MissingStreamType)
    ELSE
    LET stream_type == StreamType_from_str(iter[2]) IN
    IF ~stream_type.ok THEN Err(InvalidStreamType(in))
    ELSE IF Len(iter) < 3 THEN Err(MissingLogTag)
    ELSE Ok(CriLog(parsed.value, stream_type.value, iter[3],
                   join(SubSeq(iter, 4, Len(iter)), <<Space>>)))

\* the two "missing" errors after the timestamp exchanged
from_str_missing_swapped(in) ==
    LET iter == split_whitespace(in) IN
    IF Len(iter) < 1 THEN Err(MissingTimestamp)
    ELSE
    LET parsed == parse_from_rfc3339(iter[1]) IN
    IF ~parsed.ok THEN Err(TimestampFormat(iter[1]))
    ELSE IF Len(iter) < 2 THEN Err(MissingLogTag)
    ELSE
    LET stream_type == StreamType_from_str(iter[2]) IN
    IF ~stream_type.ok THEN Err(InvalidStreamType(iter[2]))
    ELSE IF Len(iter) < 3 THEN Err(MissingStreamType)
    ELSE Ok(CriLog(parsed.value, stream_type.value, iter[3],
                   join(SubSeq(iter, 4, Len(iter)), <<Space>>)))

\* a token iterator kept from one call to the next: after the first call the
\* first token of the line is taken for already consumed
from_str_kept_iterator(in) ==
    LET all == split_whitespace(in)
        iter == IF history = {} THEN all ELSE SubSeq(all, 2, Len(all))
    IN
    IF Len(iter) < 1 THEN Err(MissingTimestamp)
    ELSE
    LET parsed == parse_from_rfc3339(iter[1]) IN
    IF ~parsed.ok THEN Err(TimestampFormat(iter[1]))
    ELSE IF Len(iter) < 2 THEN Err(MissingStreamType)
    ELSE
    LET stream_type == StreamType_from_str(iter[2]) IN
    IF ~stream_type.ok THEN Err(InvalidStreamType(iter[2]))
    ELSE IF Len(iter) < 3 THEN Err(MissingLogTag)
    ELSE Ok(CriLog(parsed.value, stream_type.value, iter[3],
                   join(SubSeq(iter, 4, Len(iter)), <<Space>>)))

from_str(in) ==
    LET iter == split_whitespace(in) IN
    \* iter.next().ok_or(MissingTimestamp)?
    IF Len(iter) < 1 THEN Err(MissingTimestamp)
    ELSE
    LET timestamp_str == iter[1]
        parsed == parse_from_rfc3339(timestamp_str)
    IN
    IF ~parsed.ok THEN Err(TimestampFormat(timestamp_str))
    \* iter.next().ok_or(MissingStreamType)?
    ELSE IF Len(iter) < 2 THEN Err(MissingStreamType)
    ELSE
    LET stream_type_str == iter[2]
        stream_type == StreamType_from_str(stream_type_str)
    IN
    IF ~stream_type.ok THEN Err(InvalidStreamType(stream_type_str))
    \* iter.next().ok_or(MissingLogTag)?
    ELSE IF Len(iter) < 3 THEN Err(MissingLogTag)
    ELSE Ok(CriLog(parsed.value, stream_type.value, iter[3],
                   join(SubSeq(iter, 4, Len(iter)), <<Space>>)))

(***************************************************************************)
(* Inputs of the model                                                     *)
(***************************************************************************)
\* 2016-10-06T00:17:09.669794202Z
TsUtc == <<"2", "0", "1", "6", "-", "1", "0", "-", "0", "6", "T", "0", "0", ":", "1", "7", ":", "0", "9", ".", "6", "6", "9", "7", "9", "4", "2", "0", "2", "Z">>
\* 2016-10-06T00:17:09+02:00
TsOffset == <<"2", "0", "1", "6", "-", "1", "0", "-", "0", "6", "T", "0", "0", ":", "1", "7", ":", "0", "9", "+", "0", "2", ":", "0", "0">>
UpperStdout == <<"S", "T", "D", "O", "U", "T">>
TagP == <<"P">>

\* the tokens a line may carry in its first three positions
Tokens == {TsUtc, TsOffset, StdoutToken, StderrToken, UpperStdout, TagP}

\* the tokens a line may carry after the tag
Words == {<<"l", "o", "g">>, <<"1">>}

\* whitespace before the first token, between two tokens, after the last
LeadingRuns == {<<>>, <<Tab, Space>>}
SeparatorRuns == {<<Space>>, <<Space, Tab, Space>>}
TrailingRuns == {<<>>, <<Space, Space, Space>>}

(***************************************************************************)
(* The caller builds a line token by token, then calls from_str once.      *)
(***************************************************************************)
Init ==
    /\ line = <<>>
    /\ toks = <<>>
    /\ pc = "building"
    /\ input = <<>>
    /\ result = <<>>
    /\ history = {}

\* one of the three leading fields is put on the line
AppendField(ws, tok) ==
    /\ pc = "building"
    /\ Len(toks) < 3
    /\ ws \in (IF toks = <<>> THEN LeadingRuns ELSE SeparatorRuns)
    /\ line' = line \o ws \o tok
    /\ toks' = Append(toks, tok)
    /\ UNCHANGED <<pc, input, result, history>>

\* one more token of the message is put on the line
AppendWord(ws, w) ==
    /\ pc = "building"
    /\ Len(toks) >= 3
    /\ Len(toks) < 3 + MaxWords
    /\ line' = line \o ws \o w
    /\ toks' = Append(toks, w)
    /\ UNCHANGED <<pc, input, result, history>>

\* CriLog::from_str(line + trailing whitespace)
Parse(trail) ==
    /\ pc = "building"
    /\ LET r == from_str(line \o trail)
       IN  /\ input' = line \o trail
           /\ result' = <<r>>
           /\ history' = history \cup {<<line \o trail, r>>}
    /\ pc' = "done"
    /\ UNCHANGED <<line, toks>>

Next ==
    \/ \E tok \in Tokens :
         \E ws \in LeadingRuns \cup SeparatorRuns : AppendField(ws, tok)
    \/ \E w \in Words : \E ws \in SeparatorRuns : AppendWord(ws, w)
    \/ \E trail \in TrailingRuns : Parse(trail)

Spec == Init /\ [][Next]_vars


(***************************************************************************)
(* A second caller: it passes whole sample lines, one call after another,  *)
(* and keeps every <<input, Result>> pair it has observed.                 *)
(***************************************************************************)
NotATimestamp == <<"n", "o", "t", "-", "a", "-", "t", "i", "m", "e", "s", "t", "a", "m", "p">>
\* 2016-10-06T00:17:09 (no offset)
TsNoOffset == <<"2", "0", "1", "6", "-", "1", "0", "-", "0", "6", "T", "0", "0", ":", "1", "7", ":", "0", "9">>
\* 2016-13-06T00:17:09Z (month 13)
TsBadMonth == <<"2", "0", "1", "6", "-", "1", "3", "-", "0", "6", "T", "0", "0", ":", "1", "7", ":", "0", "9", "Z">>
\* 2016-10-06T00:17:09.669794203Z
TsUtc2 == <<"2", "0", "1", "6", "-", "1", "0", "-", "0", "6", "T", "0", "0", ":", "1", "7", ":", "0", "9", ".", "6", "6", "9", "7", "9", "4", "2", "0", "3", "Z">>
Unknown == <<"u", "n", "k", "n", "o", "w", "n">>
TagF == <<"F">>

SampleLines ==
    { <<>>,
      <<NotATimestamp, StdoutToken, TagP, <<"m", "s", "g">>>>,
      <<TsNoOffset, StdoutToken, TagP>>,
      <<TsBadMonth, StderrToken>>,
      <<TsUtc>>,
      <<TsUtc, Unknown, TagP, <<"m", "s", "g">>>>,
      <<TsUtc, StdoutToken>>,
      <<TsUtc, StdoutToken, TagP, <<"l", "o", "g">>, <<"c", "o", "n", "t", "e", "n", "t">>, <<"1">>>>,
      <<TsUtc2, StderrToken, TagF, <<"l", "o", "g">>, <<"c", "o", "n", "t", "e", "n", "t">>, <<"2">>>> }

\* CriLog::from_str(sample line), whatever was called before
Call(ts) ==
    /\ toks' = ts
    /\ line' = join(ts, <<Space>>)
    /\ LET r == from_str(line')
       IN  /\ input' = line'
           /\ result' = <<r>>
           /\ history' = history \cup {<<line', r>>}
    /\ pc' = "done"

NextCalls == \E ts \in SampleLines : Call(ts)

SpecCalls == Init /\ [][NextCalls]_vars

(***************************************************************************)
(* Vocabulary of the properties                                            *)
(***************************************************************************)
Done == pc = "done"

\* the Result of the call
R == result[1]

\* the tokens of the model that are RFC 3339 timestamps, and their values
ValidTimestamps == {TsUtc, TsOffset, TsUtc2}

ExpectedTimestamp(tok) ==
    IF tok = TsOffset
    THEN [year |-> 2016, month |-> 10, day |-> 6, hour |-> 0, minute |-> 17,
          second |-> 9, nanosecond |-> 0, offset |-> 7200]
    ELSE [year |-> 2016, month |-> 10, day |-> 6, hour |-> 0, minute |-> 17,
          second |-> 9,
          nanosecond |-> IF tok = TsUtc THEN 669794202 ELSE 669794203,
          offset |-> 0]

StreamTokens == {StdoutToken, StderrToken}

ExpectedStream(tok) == IF tok = StdoutToken THEN StdOut ELSE StdErr

\* the token a stream type is written as
StreamToken(st) == IF st = StdOut THEN StdoutToken ELSE StderrToken

\* the words, one space between two consecutive ones
RECURSIVE SpaceJoined(_)
SpaceJoined(ws) ==
    IF ws = <<>> THEN <<>>
    ELSE IF Len(ws) = 1 THEN ws[1]
    ELSE SpaceJoined(SubSeq(ws, 1, Len(ws) - 1)) \o <<" ">> \o ws[Len(ws)]

Rest == SubSeq(toks, 4, Len(toks))

WellFormed ==
    /\ Len(toks) >= 3
    /\ toks[1] \in ValidTimestamps
    /\ toks[2] \in StreamTokens

IsErr(e) == ~R.ok /\ R.err = e

\* the error of the leftmost field that is missing or invalid
LeftmostError ==
    IF Len(toks) = 0 THEN MissingTimestamp
    ELSE IF toks[1] \notin ValidTimestamps THEN TimestampFormat(toks[1])
    ELSE IF Len(toks) = 1 THEN MissingStreamType
    ELSE IF toks[2] \notin StreamTokens THEN InvalidStreamType(toks[2])
    ELSE MissingLogTag

\* the line handed to from_str holds more whitespace than one space a token
IrregularSpacing == Len(input) > Len(SpaceJoined(toks))

(***************************************************************************)
(* C1: a line of at least three tokens whose first is an RFC 3339          *)
(* timestamp and whose second is "stdout" or "stderr" parses, and the      *)
(* entry holds the timestamp as written (offset kept), the stream type of  *)
(* the second token, the third token as the tag and the other tokens       *)
(* joined as the log; every other line yields a ParsingError and no entry. *)
(***************************************************************************)
C1_ParseWellFormed ==
    Done =>
        IF WellFormed
        THEN /\ R.ok
             /\ DOMAIN R = {"ok", "value"}
             /\ timestamp(R.value) = ExpectedTimestamp(toks[1])
             /\ R.value.stream_type = ExpectedStream(toks[2])
             /\ tag(R.value) = toks[3]
             /\ log(R.value) = SpaceJoined(Rest)
        ELSE /\ ~R.ok
             /\ DOMAIN R = {"ok", "err"}
             /\ R.err.kind \in ParsingErrorKinds

C1_Witness ==
    /\ Done /\ WellFormed /\ R.ok
    /\ toks[1] = TsOffset /\ R.value.timestamp.offset = 7200
    /\ toks[2] = StderrToken /\ R.value.stream_type = StdErr
    /\ Len(toks) = 5

(***************************************************************************)
(* C2: the one error returned is that of the leftmost field that is        *)
(* missing or invalid: timestamp, then stream type, then tag.              *)
(***************************************************************************)
C2_LeftmostErrorOnly ==
    Done =>
        /\ Len(result) = 1
        /\ ~WellFormed => IsErr(LeftmostError)
        /\ (toks # <<>> /\ toks[1] \notin ValidTimestamps)
               => (~R.ok /\ R.err.kind = "TimestampFormat")

\* the timestamp and the stream token are both invalid
C2_Witness ==
    /\ Done /\ Len(toks) >= 2
    /\ toks[1] = UpperStdout /\ toks[2] = UpperStdout
    /\ IsErr(TimestampFormat(UpperStdout))

(***************************************************************************)
(* C3: MissingTimestamp is returned exactly when the line has no token.    *)
(***************************************************************************)
C3_MissingTimestampIffNoToken ==
    Done => (IsErr(MissingTimestamp) <=> toks = <<>>)

\* a line of whitespace only
C3_Witness ==
    /\ Done /\ toks = <<>> /\ Len(input) = 3 /\ IsErr(MissingTimestamp)

(***************************************************************************)
(* C4: a first token that is no RFC 3339 timestamp yields TimestampFormat  *)
(* carrying exactly that token, whatever follows it.                       *)
(***************************************************************************)
C4_TimestampFormatPayload ==
    (Done /\ toks # <<>> /\ toks[1] \notin ValidTimestamps)
        => IsErr(TimestampFormat(toks[1]))

C4_Witness ==
    /\ Done /\ Len(toks) >= 3 /\ toks[1] = TagP
    /\ IrregularSpacing
    /\ IsErr(TimestampFormat(TagP))

(***************************************************************************)
(* C5: after a valid timestamp, a second token other than "stdout" and     *)
(* "stderr" (case variants included) yields InvalidStreamType carrying     *)
(* exactly that token.                                                     *)
(***************************************************************************)
C5_InvalidStreamTypePayload ==
    (Done /\ Len(toks) >= 2 /\ toks[1] \in ValidTimestamps
          /\ toks[2] \notin StreamTokens)
        => IsErr(InvalidStreamType(toks[2]))

C5_Witness ==
    /\ Done /\ Len(toks) >= 3 /\ toks[1] \in ValidTimestamps
    /\ toks[2] = UpperStdout
    /\ IsErr(InvalidStreamType(UpperStdout))

(***************************************************************************)
(* C6: a line of one token yields MissingStreamType.                       *)
(***************************************************************************)
C6_OneTokenMissingStreamType ==
    (Done /\ Len(toks) = 1) => IsErr(MissingStreamType)

(***************************************************************************)
(* C6, amended: a line of one token, that token a valid RFC 3339           *)
(* timestamp, yields MissingStreamType.                                    *)
(***************************************************************************)
C6_OneValidTokenMissingStreamType ==
    (Done /\ Len(toks) = 1 /\ toks[1] \in ValidTimestamps)
        => IsErr(MissingStreamType)

C6_Witness ==
    /\ Done /\ toks = <<TsUtc>> /\ IsErr(MissingStreamType)

(***************************************************************************)
(* C7: a line of exactly two tokens, a valid timestamp and "stdout" or     *)
(* "stderr", yields MissingLogTag; a third token is taken as the tag as    *)
(* it is, and MissingLogTag is never returned for three tokens or more.    *)
(***************************************************************************)
C7_MissingLogTag ==
    Done =>
        /\ (Len(toks) = 2 /\ toks[1] \in ValidTimestamps
                          /\ toks[2] \in StreamTokens)
               => IsErr(MissingLogTag)
        /\ Len(toks) >= 3 => ~IsErr(MissingLogTag)
        /\ WellFormed => (R.ok /\ tag(R.value) = toks[3])

C7_Witness ==
    /\ Done /\ toks = <<TsUtc, StdoutToken>> /\ IsErr(MissingLogTag)

\* a third token that is no usual tag is accepted
C7_WitnessAnyTag ==
    /\ Done /\ WellFormed /\ toks[3] = TsUtc /\ R.ok
    /\ tag(R.value) = TsUtc

(***************************************************************************)
(* C8: on success log() is the tokens after the third with exactly one     *)
(* space between two consecutive ones, whatever whitespace the line held:  *)
(* no whitespace at either end, no two whitespace characters in a row; a   *)
(* line of exactly three tokens parses, with an empty log().               *)
(***************************************************************************)
C8_LogSingleSpaced ==
    Done =>
        /\ R.ok =>
            LET l == log(R.value) IN
            /\ l = SpaceJoined(Rest)
            /\ l # <<>> => (~IsWhitespace(l[1]) /\ ~IsWhitespace(l[Len(l)]))
            /\ \A i \in 1..(Len(l) - 1) :
                   ~(IsWhitespace(l[i]) /\ IsWhitespace(l[i + 1]))
            /\ \A i \in 1..Len(l) : IsWhitespace(l[i]) => l[i] = " "
        /\ (WellFormed /\ Len(toks) = 3) => (R.ok /\ log(R.value) = <<>>)

C8_Witness ==
    /\ Done /\ R.ok /\ Len(toks) = 5
    /\ Len(input) >= Len(SpaceJoined(toks)) + 8
    /\ Len(log(R.value)) = Len(toks[4]) + 1 + Len(toks[5])

C8_WitnessEmpty ==
    /\ Done /\ R.ok /\ Len(toks) = 3 /\ log(R.value) = <<>>

(***************************************************************************)
(* C9: on success exactly one of is_stdout() and is_stderr() is true, and  *)
(* the stream type written back as its token ("stdout" for StdOut,         *)
(* "stderr" for StdErr) parses to the same stream type.                    *)
(***************************************************************************)
C9_StreamExclusiveRoundTrip ==
    (Done /\ R.ok) =>
        /\ is_stdout(R.value) # is_stderr(R.value)
        /\ R.value.stream_type \in StreamType
        /\ StreamType_from_str(StreamToken(R.value.stream_type))
               = [ok |-> TRUE, value |-> R.value.stream_type]

C9_Witness ==
    /\ Done /\ R.ok /\ is_stderr(R.value) /\ ~is_stdout(R.value)

(***************************************************************************)
(* C10: every call ends in one of five outcomes, one success and four      *)
(* kinds of failure, and the outcome depends on the input line only.       *)
(***************************************************************************)
Outcome(r) == IF r.ok THEN "Ok" ELSE r.err.kind

OutcomesSeen == {Outcome(h[2]) : h \in history}

SameInputSameResult ==
    \A g \in history : \A h \in history : g[1] = h[1] => g[2] = h[2]

C10_FiveOutcomes ==
    /\ SameInputSameResult
    /\ Cardinality(OutcomesSeen) <= 5
    /\ Cardinality(OutcomesSeen \ {"Ok"}) <= 4

(***************************************************************************)
(* C10, amended: every call ends in one of six outcomes, one success and   *)
(* the five kinds of ParsingError, and the outcome depends on the input    *)
(* line only.                                                              *)
(***************************************************************************)
C10_SixOutcomes ==
    /\ SameInputSameResult
    /\ OutcomesSeen \subseteq ({"Ok"} \cup ParsingErrorKinds)
    /\ Done => (Len(result) = 1 /\ <<input, R>> \in history)

\* all six outcomes have been observed, every sample line passed
C10_Witness ==
    /\ OutcomesSeen = {"Ok"} \cup ParsingErrorKinds
    /\ Cardinality(history) = Cardinality(SampleLines)

====
